---- MODULE Spec2Model ----
(***************************************************************************)
(* A model of wordpress-api-scraper.py: the pagination loop of             *)
(* WordPressAPIScraper.fetch_data, the flattening of one item by           *)
(* extract_text_fields, and the export of save_to_csv.                     *)
(*                                                                         *)
(* Python values are encoded as follows.                                   *)
(*   str          a sequence of one-character strings                      *)
(*   None         for max_pages: the number NoneInt; for params: a record  *)
(*                with isNone = TRUE                                       *)
(*   dict         a record [keys, val]: keys is the insertion order of the *)
(*                keys, val the mapping (request parameters, whose order   *)
(*                nothing reads, are a plain function)                     *)
(***************************************************************************)
EXTENDS Integers, Sequences, FiniteSets, TLC

VARIABLES
    \* ---- fetch_data ----
    params,         \* argument params: [isNone, d]
    per_page,       \* argument per_page
    max_pages,      \* argument max_pages (NoneInt for None)
    page,           \* local page
    all_data,       \* local all_data, the accumulator
    requests,       \* the request_params of every GET issued so far, in order
    responses,      \* what each GET came back with, in order
    fetch_pc,       \* "fetching" (in the while loop), "returned", "raised",
                    \* "blocked" (in a GET that never completes)
    stop_reason,    \* which break left the loop, or the exception raised
    \* ---- extract_text_fields ----
    item,           \* argument item
    fields,         \* argument fields
    extracted,      \* the returned dict
    first_extracted,\* the dict returned by the first call, kept when the
                    \* result is flattened again
    flat_pc,        \* "start", "extracted", "reextracted"
    \* ---- save_to_csv ----
    data,           \* argument data
    filename,       \* argument filename: [dir, name]
    text_fields,    \* argument text_fields
    fs,             \* the file system: [dirs, files]
    csv_out,        \* console output of the call
    csv_pc          \* "start", "returned", "raised"

fetchVars == <<params, per_page, max_pages, page, all_data, requests,
               responses, fetch_pc, stop_reason>>
flatVars  == <<item, fields, extracted, first_extracted, flat_pc>>
csvVars   == <<data, filename, text_fields, fs, csv_out, csv_pc>>
vars      == <<fetchVars, flatVars, csvVars>>

----------------------------------------------------------------------------
(* Bounds of the model *)

\* max_pages ranges over None and 0..MaxN
MaxN == 2
\* the model follows the loop for at most RequestCap GETs
RequestCap == MaxN + 1

----------------------------------------------------------------------------
(* fetch_data *)

\* Python None where an int is expected (max_pages: Optional[int])
NoneInt == -1

\* the sequences of at most n elements of S
RECURSIVE SeqsUpTo(_, _)
SeqsUpTo(S, n) ==
    IF n = 0 THEN {<<>>}
    ELSE LET shorter == SeqsUpTo(S, n - 1)
         IN  shorter \cup {Append(s, x) : s \in shorter, x \in S}

\* what response.json() can be: a JSON array, object (its keys, in order),
\* string (its characters), number, true/false or null
JArray(items) == [type |-> "array", items |-> items, n |-> 0, b |-> FALSE]

JObject(keys) == [type |-> "object", items |-> keys, n |-> 0, b |-> FALSE]

JString(chars) == [type |-> "string", items |-> chars, n |-> 0, b |-> FALSE]

JNumber(n) == [type |-> "number", items |-> <<>>, n |-> n, b |-> FALSE]

JBool(b) == [type |-> "bool", items |-> <<>>, n |-> 0, b |-> b]

JNull == [type |-> "null", items |-> <<>>, n |-> 0, b |-> FALSE]

\* the bodies a page request can return: the empty array, and pages of one,
\* two and three records, one record served on more than one page
\* (fetch_data never looks inside a record, here "r1", "r2", "r3")
PageBodies ==
    { JArray(<<>>), JArray(<<"r1">>), JArray(<<"r2", "r1">>),
      JArray(<<"r1", "r2", "r3">>) }

\* the bodies that are no array: the code does not check the shape
OtherBodies ==
    { JObject(<<"code", "message">>), JObject(<<>>),
      JString(<<"o", "k">>), JString(<<>>),
      JNumber(5), JNumber(0), JBool(TRUE), JBool(FALSE), JNull }

Bodies == PageBodies \cup OtherBodies

\* bool(data)
Truthy(j) ==
    CASE j.type \in {"array", "object", "string"} -> Len(j.items) > 0
      [] j.type = "number" -> j.n # 0
      [] j.type = "bool" -> j.b
      [] OTHER -> FALSE

\* whether iter(data) works: a list, a dict and a str are iterable, an int
\* and a bool are not (TypeError)
Iterable(j) == j.type \in {"array", "object", "string"}

\* list(data): the elements of a list, the keys of a dict, the characters of
\* a str
Iterate(j) == j.items

\* the exceptions requests.get raises: ConnectionError and Timeout, which
\* are RequestException; and, for a redirect whose Location is no valid URL
\* or no UTF-8, ValueError and UnicodeDecodeError, which are not
GetErrors == {"ConnectionError", "Timeout", "ValueError", "UnicodeDecodeError"}

\* the status codes a response arrives with; requests.get does not follow a
\* 300 that names no Location
Statuses == {200, 300, 404, 500}

\* response.raise_for_status() raises HTTPError for a 4xx or 5xx status
RaisesForStatus(st) == 400 <= st /\ st < 600

\* what response.json() raises: for a body that is no JSON,
\* requests.exceptions.JSONDecodeError (a RequestException) with requests
\* 2.27 and later and json's own JSONDecodeError (a ValueError) before; for
\* a body nested deeper than the recursion limit, RecursionError
JsonErrors == {"JSONDecodeError", "ValueError", "RecursionError"}

\* the exceptions of the try block that are RequestException
RequestExceptions == {"ConnectionError", "Timeout", "HTTPError", "JSONDecodeError"}

\* the responses whose body response.json() parses: any body with status
\* 200, a page of records or an empty page with status 300
ParsedResponses ==
    {[status |-> 200, body |-> d] : d \in Bodies}
        \cup {[status |-> 300, body |-> d] : d \in {JArray(<<"r1">>), JArray(<<>>)}}

\* what a GET came back with: the exception raised (kind) and the call that
\* raised it (from), or kind "ok" and the parsed body
Response(kind, from, st, d) ==
    [kind |-> kind, from |-> from, status |-> st, body |-> d]

EmptyDict == [k \in {} |-> 0]

NoParams == [isNone |-> TRUE, d |-> EmptyDict]

DictParams(d) == [isNone |-> FALSE, d |-> d]

\* the params arguments tried
ParamChoices ==
    { NoParams,
      DictParams(EmptyDict),
      DictParams([k \in {"categories"} |-> 5]),
      DictParams([k \in {"page"} |-> 3]),
      DictParams([k \in {"per_page", "page"} |-> IF k = "page" THEN 3 ELSE 1]) }

\* the per_page arguments tried: the default and the one main() passes
PerPageChoices == {100, 50}

MaxPagesChoices == {NoneInt} \cup (0 .. MaxN)

\* params or {}
ParamsOrEmpty(p) == IF p.isNone THEN EmptyDict ELSE p.d

\* {'per_page': per_page, 'page': page, **(params or {})}: a later key of a
\* dict display replaces an earlier one
RequestParams(pp, pg, p) ==
    LET extra == ParamsOrEmpty(p)
        base  == [k \in {"per_page", "page"} |-> IF k = "page" THEN pg ELSE pp]
    IN  [k \in DOMAIN base \cup DOMAIN extra |->
            IF k \in DOMAIN extra THEN extra[k] ELSE base[k]]

\* except requests.exceptions.RequestException
Caught(exc) == exc \in RequestExceptions

\* a variant: if data is None
IsFalsyNoneOnly(d) == d.type = "null"

\* if not data
IsFalsy(d) == ~Truthy(d)

\* a variant: all_data = data + all_data
ExtendInFront(acc, d) == Iterate(d) \o acc

\* all_data.extend(data), data iterable
Extend(acc, d) == acc \o Iterate(d)

\* a variant: if max_pages and page > max_pages
MaxPagesReachedOffByOne(mp, pg) == mp # NoneInt /\ mp # 0 /\ pg > mp

\* if max_pages and page >= max_pages: None and 0 are falsy
MaxPagesReached(mp, pg) == mp # NoneInt /\ mp # 0 /\ pg >= mp

\* a variant: the increment left out
NextPageSame(pg) == pg

\* page += 1
NextPage(pg) == pg + 1

InitFetch ==
    /\ params \in ParamChoices
    /\ per_page \in PerPageChoices
    /\ max_pages \in MaxPagesChoices
    /\ page = 1
    /\ all_data = <<>>
    /\ requests = <<>>
    /\ responses = <<>>
    /\ fetch_pc = "fetching"
    /\ stop_reason = "none"

\* the GET of one iteration
IssueRequest(resp) ==
    /\ fetch_pc = "fetching"
    /\ Len(requests) < RequestCap
    /\ requests' = Append(requests, RequestParams(per_page, page, params))
    /\ responses' = Append(responses, resp)

\* leaving the try block with the exception exc: the except clause breaks
\* and the call returns all_data, or exc leaves fetch_data
Raise(exc) ==
    /\ IF Caught(exc)
       THEN fetch_pc' = "returned" /\ stop_reason' = "TransportError"
       ELSE fetch_pc' = "raised" /\ stop_reason' = exc
    /\ UNCHANGED <<page, all_data>>

\* requests.get raises
FetchFails ==
    \E exc \in GetErrors :
        /\ IssueRequest(Response(exc, "get", 0, JNull))
        /\ Raise(exc)
        /\ UNCHANGED <<params, per_page, max_pages>>

\* the response has an error status: raise_for_status raises HTTPError
FetchErrorStatus ==
    \E st \in Statuses :
        /\ RaisesForStatus(st)
        /\ IssueRequest(Response("HTTPError", "raise_for_status", st, JNull))
        /\ Raise("HTTPError")
        /\ UNCHANGED <<params, per_page, max_pages>>

\* the response passes raise_for_status and response.json() raises
FetchJsonRaises ==
    \E st \in Statuses, exc \in JsonErrors :
        /\ ~RaisesForStatus(st)
        /\ IssueRequest(Response(exc, "json", st, JNull))
        /\ Raise(exc)
        /\ UNCHANGED <<params, per_page, max_pages>>

\* requests.get never completes: no timeout is passed, so a server that
\* stays silent keeps the call in the GET for good
FetchBlocks ==
    /\ fetch_pc = "fetching"
    /\ Len(requests) < RequestCap
    /\ requests' = Append(requests, RequestParams(per_page, page, params))
    /\ fetch_pc' = "blocked"
    /\ UNCHANGED <<params, per_page, max_pages, page, all_data, responses,
                   stop_reason>>

\* the response passes raise_for_status and response.json() is d: a falsy d
\* ends the loop; a d that is not iterable makes extend raise TypeError;
\* otherwise what iterating d gives is appended, and the loop ends at the
\* page limit or goes on to the next page
FetchBody ==
    \E resp \in ParsedResponses :
      LET d == resp.body IN
        /\ ~RaisesForStatus(resp.status)
        /\ IssueRequest(Response("ok", "none", resp.status, d))
        /\ IF IsFalsy(d)
           THEN /\ fetch_pc' = "returned"
                /\ stop_reason' = "EmptyPage"
                /\ UNCHANGED <<page, all_data>>
           ELSE IF ~Iterable(d)
           THEN Raise("TypeError")
           ELSE /\ all_data' = Extend(all_data, d)
                /\ IF MaxPagesReached(max_pages, page)
                   THEN /\ fetch_pc' = "returned"
                        /\ stop_reason' = "MaxPagesReached"
                        /\ page' = page
                   ELSE /\ page' = NextPage(page)
                        /\ UNCHANGED <<fetch_pc, stop_reason>>
        /\ UNCHANGED <<params, per_page, max_pages>>

----------------------------------------------------------------------------
(* extract_text_fields *)

\* the rendered strings tried are built of at most MaxParts of the Pieces
MaxParts == 4

POpen == <<"<", "p", ">">>

PClose == <<"<", "/", "p", ">">>

Pieces == {POpen, PClose, <<"<">>, <<"/">>, <<"p">>, <<">">>, <<"H">>}

\* the strings made of at most n pieces
RECURSIVE PieceStrings(_)
PieceStrings(n) ==
    IF n = 0 THEN {<<>>}
    ELSE LET shorter == PieceStrings(n - 1)
         IN  shorter \cup {s \o p : s \in shorter, p \in Pieces}

\* "<p>Hello</p><p>World</p>"
HelloWorldHtml ==
    POpen \o <<"H", "e", "l", "l", "o">> \o PClose
          \o POpen \o <<"W", "o", "r", "l", "d">> \o PClose

\* "HelloWorld"
HelloWorldText == <<"H", "e", "l", "l", "o", "W", "o", "r", "l", "d">>

TextStrings == PieceStrings(MaxParts) \cup {HelloWorldHtml}

\* s[i .. i + Len(t) - 1] = t
MatchesAt(s, i, t) ==
    /\ i + Len(t) - 1 <= Len(s)
    /\ \A j \in 1 .. Len(t) : s[i + j - 1] = t[j]

\* t in s
Contains(s, t) == \E i \in 1 .. Len(s) : MatchesAt(s, i, t)

\* s.replace(old, ''), old not empty: the occurrences of old are found from
\* the left, each search resuming behind the occurrence before it; what the
\* removals bring together is not searched again
RECURSIVE Replace(_, _)
Replace(s, old) ==
    IF Len(s) < Len(old) THEN s
    ELSE IF MatchesAt(s, 1, old)
         THEN Replace(SubSeq(s, Len(old) + 1, Len(s)), old)
         ELSE <<Head(s)>> \o Replace(Tail(s), old)

\* s.replace(old, '', 1)
RECURSIVE ReplaceFirst(_, _)
ReplaceFirst(s, old) ==
    IF Len(s) < Len(old) THEN s
    ELSE IF MatchesAt(s, 1, old)
         THEN SubSeq(s, Len(old) + 1, Len(s))
         ELSE <<Head(s)>> \o ReplaceFirst(Tail(s), old)

\* a variant: .replace('<p>', '', 1).replace('</p>', '', 1)
StripPFirstOnly(s) == ReplaceFirst(ReplaceFirst(s, POpen), PClose)

\* .replace('<p>', '').replace('</p>', '')
StripP(s) == Replace(Replace(s, POpen), PClose)

\* the values of an item's fields: a str, an int, None, or a dict that may
\* hold a str under 'rendered'
StrV(s) == [kind |-> "str", s |-> s, n |-> 0, has |-> FALSE]

IntV(n) == [kind |-> "int", s |-> <<>>, n |-> n, has |-> FALSE]

NoneV == [kind |-> "None", s |-> <<>>, n |-> 0, has |-> FALSE]

DictV(s) == [kind |-> "dict", s |-> s, n |-> 0, has |-> TRUE]

DictNoRendered == [kind |-> "dict", s |-> <<>>, n |-> 0, has |-> FALSE]

DigitChars == <<"0", "1", "2", "3", "4", "5", "6", "7", "8", "9">>

RECURSIVE NatToStr(_)
NatToStr(n) ==
    IF n < 10 THEN <<DigitChars[n + 1]>>
    ELSE NatToStr(n \div 10) \o <<DigitChars[(n % 10) + 1]>>

\* str(n) of an int
IntToStr(n) == IF n < 0 THEN <<"-">> \o NatToStr(0 - n) ELSE NatToStr(n)

\* a variant: repr(v) of a value that is no dict
Repr(v) ==
    CASE v.kind = "str" -> <<"'">> \o v.s \o <<"'">>
      [] v.kind = "int" -> IntToStr(v.n)
      [] OTHER -> <<"N", "o", "n", "e">>

\* str(v) of a value that is no dict
Str(v) ==
    CASE v.kind = "str" -> v.s
      [] v.kind = "int" -> IntToStr(v.n)
      [] OTHER -> <<"N", "o", "n", "e">>

\* isinstance(v, dict)
IsDict(v) == v.kind = "dict"

\* v.get('rendered', '')
Rendered(v) == IF v.has THEN v.s ELSE <<>>

\* {}
EmptyPyDict == [keys |-> <<>>, val |-> EmptyDict]

\* d[k] = v: a new key goes behind the others, a key d holds keeps its place
DictSet(d, k, v) ==
    [keys |-> IF k \in DOMAIN d.val THEN d.keys ELSE Append(d.keys, k),
     val  |-> [x \in DOMAIN d.val \cup {k} |-> IF x = k THEN v ELSE d.val[x]]]

\* the body of the for loop
ExtractField(acc, it, field) ==
    IF field \in DOMAIN it /\ IsDict(it[field])
    THEN DictSet(acc, field, StripP(Rendered(it[field])))
    ELSE IF field \in DOMAIN it
         THEN DictSet(acc, field, Str(it[field]))
         ELSE acc

RECURSIVE ExtractLoop(_, _, _)
ExtractLoop(acc, it, fs_) ==
    IF fs_ = <<>> THEN acc
    ELSE ExtractLoop(ExtractField(acc, it, Head(fs_)), it, Tail(fs_))

extract_text_fields(it, fs_) == ExtractLoop(EmptyPyDict, it, fs_)

\* a returned dict, read as an item: every value is a str
AsItem(d) == [k \in DOMAIN d.val |-> StrV(d.val[k])]

FieldNames == {"title", "content"}

DefaultFields == <<"title", "content">>

\* the fields arguments tried
FieldLists == {DefaultFields, <<"content", "title", "content">>}

\* a key the item does not hold
Absent == [kind |-> "absent", s |-> <<>>, n |-> 0, has |-> FALSE]

\* {'title': t, 'content': c}, without the key of a value that is Absent
MakeItem(t, c) ==
    [k \in {x \in FieldNames : (IF x = "title" THEN t ELSE c) # Absent} |->
        IF k = "title" THEN t ELSE c]

\* the values tried for 'title' besides a str and a dict with 'rendered'
OtherTitleValues == {IntV(0), IntV(-12), IntV(305), NoneV, DictNoRendered, Absent}

\* the values tried for 'content'
ContentValues == {DictV(POpen \o <<"B">> \o PClose), IntV(7), Absent}

\* the items tried: 'title' is a str or a dict holding one of TextStrings as
\* 'rendered', or one of OtherTitleValues
InitFlat ==
    /\ \E c \in ContentValues :
          \/ \E s \in TextStrings : item = MakeItem(StrV(s), c)
          \/ \E s \in TextStrings : item = MakeItem(DictV(s), c)
          \/ \E t \in OtherTitleValues : item = MakeItem(t, c)
    /\ fields \in FieldLists
    /\ extracted = EmptyPyDict
    /\ first_extracted = EmptyPyDict
    /\ flat_pc = "start"

\* extracted = extract_text_fields(item, fields)
ExtractTextFields ==
    /\ flat_pc = "start"
    /\ extracted' = extract_text_fields(item, fields)
    /\ first_extracted' = extracted'
    /\ flat_pc' = "extracted"
    /\ UNCHANGED <<item, fields>>

\* extract_text_fields(extracted, fields): the returned dict is flattened again
ExtractAgain ==
    /\ flat_pc = "extracted"
    /\ item' = AsItem(extracted)
    /\ extracted' = extract_text_fields(item', fields)
    /\ flat_pc' = "reextracted"
    /\ UNCHANGED <<fields, first_extracted>>

----------------------------------------------------------------------------
(* save_to_csv *)

\* data holds at most MaxRows items
MaxRows == 2

\* the file names tried: the default, and one in a directory
FileNames ==
    { [dir |-> <<>>, name |-> "wordpress_data.csv"],
      [dir |-> <<"e", "x", "p", "o", "r", "t">>, name |-> "posts.csv"] }

Dot == <<".">>

\* os.path.dirname(filename) or '.'
DirnameOrDot(f) == IF f.dir = <<>> THEN Dot ELSE f.dir

\* os.makedirs(d, exist_ok=True)
Makedirs(dirs, d) == dirs \cup {d}

\* the rows of a file left by an earlier export
OldRows == << <<"o", "l", "d">> >>

\* the file systems a call can start in: the current directory is there, the
\* other directory is there or not, and the file is there (in a directory
\* that is there) or not
NoFiles == [f \in {} |-> <<>>]

FileSystems(f) ==
    LET dirss == {{Dot}, {Dot, f.dir}} \ {{Dot, <<>>}}
    IN  {[dirs |-> ds, files |-> NoFiles] : ds \in dirss}
            \cup {[dirs |-> ds, files |-> [g \in {f} |-> <<OldRows>>]] :
                     ds \in {x \in dirss : DirnameOrDot(f) \in x}}

\* the items tried
CsvValues == {StrV(<<"A">>), DictV(POpen \o <<"B">> \o PClose)}

CsvItems ==
    UNION {[ks -> CsvValues] : ks \in SUBSET FieldNames}

\* the text_fields arguments tried
TextFieldLists == {DefaultFields, <<"title">>}

\* [self.extract_text_fields(item, text_fields) for item in data]
ExtractedData(d, tf) == [i \in 1 .. Len(d) |-> extract_text_fields(d[i], tf)]

\* DictWriter._dict_to_list with extrasaction='raise', the default: the keys
\* of the row that are no fieldnames
WrongFields(fieldnames, rowdict) ==
    {k \in DOMAIN rowdict.val : \A i \in 1 .. Len(fieldnames) : fieldnames[i] # k}

\* (rowdict.get(key, self.restval) for key in self.fieldnames), restval = ''
DictToList(fieldnames, rowdict) ==
    [i \in 1 .. Len(fieldnames) |->
        IF fieldnames[i] \in DOMAIN rowdict.val
        THEN rowdict.val[fieldnames[i]]
        ELSE <<>>]

\* writer.writerows(extracted_data): the rows are written one by one, and a
\* row with a wrong field raises ValueError behind the rows before it
RECURSIVE WriteRows(_, _, _)
WriteRows(rows, fieldnames, rowdicts) ==
    IF rowdicts = <<>> THEN [rows |-> rows, raised |-> FALSE]
    ELSE IF WrongFields(fieldnames, Head(rowdicts)) # {}
         THEN [rows |-> rows, raised |-> TRUE]
         ELSE WriteRows(Append(rows, DictToList(fieldnames, Head(rowdicts))),
                        fieldnames, Tail(rowdicts))

\* the with block: open(filename, 'w') empties the file, writeheader() writes
\* the fieldnames, writerows() the rows; leaving the block closes the file
WriteCsv(d, tf) ==
    LET extracted_data == ExtractedData(d, tf)
        fieldnames     == extracted_data[1].keys
    IN  WriteRows(<<fieldnames>>, fieldnames, extracted_data)

SetFile(files, f, rows) ==
    [g \in DOMAIN files \cup {f} |-> IF g = f THEN rows ELSE files[g]]

\* a variant: os.makedirs ahead of the test for no data
SaveToCsvMakedirsFirst(fs_, d, f, tf) ==
    LET dirs == Makedirs(fs_.dirs, DirnameOrDot(f))
    IN  IF Len(d) = 0
        THEN [fs  |-> [dirs |-> dirs, files |-> fs_.files],
              out |-> <<"No data to save.">>,
              pc  |-> "returned"]
        ELSE LET w == WriteCsv(d, tf)
             IN  [fs  |-> [dirs |-> dirs, files |-> SetFile(fs_.files, f, w.rows)],
                  out |-> IF w.raised THEN <<>> ELSE <<"Data saved to">>,
                  pc  |-> IF w.raised THEN "raised" ELSE "returned"]

\* the whole of save_to_csv: the file system, console output and outcome
SaveToCsv(fs_, d, f, tf) ==
    IF Len(d) = 0
    THEN [fs |-> fs_, out |-> <<"No data to save.">>, pc |-> "returned"]
    ELSE LET dirs == Makedirs(fs_.dirs, DirnameOrDot(f))
             w    == WriteCsv(d, tf)
         IN  [fs  |-> [dirs |-> dirs, files |-> SetFile(fs_.files, f, w.rows)],
              out |-> IF w.raised THEN <<>> ELSE <<"Data saved to">>,
              pc  |-> IF w.raised THEN "raised" ELSE "returned"]

InitCsv ==
    /\ data \in SeqsUpTo(CsvItems, MaxRows)
    /\ filename \in FileNames
    /\ text_fields \in TextFieldLists
    /\ fs \in FileSystems(filename)
    /\ csv_out = <<>>
    /\ csv_pc = "start"

\* save_to_csv(data, filename, text_fields)
save_to_csv ==
    /\ csv_pc = "start"
    /\ LET r == SaveToCsv(fs, data, filename, text_fields)
       IN  /\ fs' = r.fs
           /\ csv_out' = r.out
           /\ csv_pc' = r.pc
    /\ UNCHANGED <<data, filename, text_fields>>

----------------------------------------------------------------------------
(* The specifications: one per function, the state of the others at rest *)

FetchAtRest ==
    /\ params = NoParams
    /\ per_page = 100
    /\ max_pages = NoneInt
    /\ page = 1
    /\ all_data = <<>>
    /\ requests = <<>>
    /\ responses = <<>>
    /\ fetch_pc = "rest"
    /\ stop_reason = "none"

FlatAtRest ==
    /\ item = EmptyDict
    /\ fields = DefaultFields
    /\ extracted = EmptyPyDict
    /\ first_extracted = EmptyPyDict
    /\ flat_pc = "rest"

CsvAtRest ==
    /\ data = <<>>
    /\ filename = [dir |-> <<>>, name |-> "wordpress_data.csv"]
    /\ text_fields = DefaultFields
    /\ fs = [dirs |-> {Dot}, files |-> NoFiles]
    /\ csv_out = <<>>
    /\ csv_pc = "rest"

FetchInit == InitFetch /\ FlatAtRest /\ CsvAtRest

FetchNext ==
    \/ FetchFails /\ UNCHANGED <<flatVars, csvVars>>
    \/ FetchErrorStatus /\ UNCHANGED <<flatVars, csvVars>>
    \/ FetchBody /\ UNCHANGED <<flatVars, csvVars>>
    \/ FetchBlocks /\ UNCHANGED <<flatVars, csvVars>>
    \/ FetchJsonRaises /\ UNCHANGED <<flatVars, csvVars>>

SpecFetch == FetchInit /\ [][FetchNext]_vars

\* the loop is sequential: an iteration that can start does start, and its
\* GET returns, raises or (FetchBlocks) never completes
FairSpecFetch == SpecFetch /\ WF_vars(FetchNext)

FlatInit == FetchAtRest /\ InitFlat /\ CsvAtRest

FlatNext ==
    \/ ExtractTextFields /\ UNCHANGED <<fetchVars, csvVars>>
    \/ ExtractAgain /\ UNCHANGED <<fetchVars, csvVars>>

SpecFlatten == FlatInit /\ [][FlatNext]_vars

CsvInit == FetchAtRest /\ FlatAtRest /\ InitCsv

CsvNext == save_to_csv /\ UNCHANGED <<fetchVars, flatVars>>

SpecCsv == CsvInit /\ [][CsvNext]_vars

----------------------------------------------------------------------------
(* Properties of fetch_data *)

\* what extend appended for a response: what iterating a truthy, iterable
\* body gives, and nothing for any other response
Appended(r) ==
    IF r.kind = "ok" /\ Truthy(r.body) /\ Iterable(r.body)
    THEN Iterate(r.body) ELSE <<>>

\* what extend appended for a run of responses, in order
RECURSIVE DataOf(_)
DataOf(rs) == IF rs = <<>> THEN <<>> ELSE Appended(Head(rs)) \o DataOf(Tail(rs))

\* the page came back as the empty array
IsOkEmpty(r) == r.kind = "ok" /\ r.body = JArray(<<>>)

\* the page came back as an array of records
IsOkData(r) == r.kind = "ok" /\ r.body.type = "array" /\ r.body.items # <<>>

\* the GET met a transport failure: requests.get raised, or the response
\* came with a status that is not 2xx
IsFailure(r) == r.from = "get" \/ r.status \notin 200 .. 299

IsPrefix(s, t) == Len(s) <= Len(t) /\ SubSeq(t, 1, Len(s)) = s

Stopped == fetch_pc = "returned"

StopReasons == {"EmptyPage", "MaxPagesReached", "TransportError"}

\* C1: with max_pages = N, N a positive integer, fetch_data issues at most N
\* GETs, whatever the API answers.
C1_AtMostMaxPagesRequests ==
    max_pages >= 1 => Len(requests) <= max_pages

\* C1 witness: max_pages = 2, two pages with records, and the loop has stopped
\* at the limit after exactly two GETs.
C1_Witness ==
    /\ max_pages = 2
    /\ Stopped
    /\ stop_reason = "MaxPagesReached"
    /\ Len(requests) = 2
    /\ IsOkData(responses[1])
    /\ IsOkData(responses[2])

\* C2: when pages 1..k-1 come back with records and page k comes back empty
\* (max_pages unset or >= k), the loop has stopped, all_data holds exactly the
\* records of pages 1..k-1, and page k was the last request issued.
C2_EmptyPageStops ==
    \A k \in 1 .. Len(responses) :
        ( /\ \A j \in 1 .. k - 1 : IsOkData(responses[j])
          /\ IsOkEmpty(responses[k])
          /\ (max_pages = NoneInt \/ max_pages >= k) )
        => /\ Stopped
           /\ stop_reason = "EmptyPage"
           /\ all_data = DataOf(SubSeq(responses, 1, k - 1))
           /\ Len(requests) = k
           /\ Len(responses) = k

\* C2 witness: two pages with records, then an empty third page.
C2_Witness ==
    /\ Len(responses) = 3
    /\ IsOkData(responses[1])
    /\ IsOkData(responses[2])
    /\ IsOkEmpty(responses[3])
    /\ Stopped
    /\ Len(all_data) >= 3

\* C3: a transport failure on page j (requests.get raises, or the response
\* has a status that is not 2xx) stops the loop at once: page j is the last
\* request, the call returns (nothing is raised to the caller), and it
\* returns exactly what pages 1..j-1 had accumulated.
C3_FailureReturnsPartial ==
    \A j \in 1 .. Len(responses) :
        IsFailure(responses[j])
        => /\ Stopped
           /\ stop_reason = "TransportError"
           /\ Len(requests) = j
           /\ Len(responses) = j
           /\ all_data = DataOf(SubSeq(responses, 1, j - 1))

\* C4: every request carries the loop's page number as 'page' and the
\* per_page argument as 'per_page', whatever keys params holds.
C4_ParamsOverrideNoPagination ==
    \A i \in 1 .. Len(requests) :
        /\ requests[i]["page"] = i
        /\ requests[i]["per_page"] = per_page

\* C6: all_data is the concatenation, in page order, of the records of every
\* page fetched so far, each page in the order the API returned it, nothing
\* dropped, reordered or deduplicated; and a step only appends to all_data.
C6_ConcatenationInOrder ==
    /\ [](all_data = DataOf(responses))
    /\ [][IsPrefix(all_data, all_data')]_vars

\* C6 witness: the same record is served on pages 1 and 2 and is held twice;
\* page 2 holds two records.
C6_Witness ==
    /\ Len(responses) >= 2
    /\ responses[1].body = JArray(<<"r1">>)
    /\ responses[2].body = JArray(<<"r2", "r1">>)
    /\ all_data = <<"r1", "r2", "r1">>

\* a page that extend can take leads to the request of the next page when
\* max_pages is None
UnsetGoesOn ==
    ( /\ max_pages = NoneInt
      /\ Len(responses') = Len(responses) + 1
      /\ Appended(responses'[Len(responses')]) # <<>> )
    => (fetch_pc' = "fetching" /\ page' = page + 1)

\* C10 as stated: termination. With max_pages a positive integer the call
\* always comes to a Stopped state (empty page, page limit or transport
\* error), whatever the API returns. Without max_pages it stops for an empty
\* page or a transport error only, and a page with records always leads to
\* the request of the next page, the page number growing by one each time.
C10_AlwaysStopped ==
    /\ (max_pages >= 1) ~> Stopped
    /\ [](fetch_pc # "fetching" => (Stopped /\ stop_reason \in StopReasons))
    /\ [](max_pages = NoneInt /\ Stopped =>
            stop_reason \in {"EmptyPage", "TransportError"})
    /\ [][UnsetGoesOn]_vars

\* an exception has left the call: one that is no RequestException, raised
\* by requests.get (a redirect it cannot follow), by response.json() (a body
\* it cannot parse) or by extend (TypeError, a truthy body that is not
\* iterable)
RaisedByBody ==
    LET r == responses[Len(responses)]
    IN  /\ stop_reason \notin RequestExceptions
        /\ \/ /\ stop_reason = "TypeError"
              /\ r.kind = "ok" /\ Truthy(r.body) /\ ~Iterable(r.body)
           \/ /\ r.kind = stop_reason
              /\ r.from \in {"get", "json"}

\* C10 as amended: with max_pages a positive integer N the call always comes
\* to an end after at most N GETs: it returns, stopped by an empty (falsy)
\* page, the page limit or a caught RequestException; or an exception leaves
\* it, one that is no RequestException; or it stays in a GET that never
\* completes. Without max_pages it returns for an empty page or a
\* caught exception only, and a page with records always leads to the
\* request of the next page, the page number growing by one each time.
C10_Termination ==
    /\ (max_pages >= 1) ~> (fetch_pc \in {"returned", "raised", "blocked"}
                            /\ Len(requests) <= max_pages)
    /\ [](Stopped => stop_reason \in StopReasons)
    /\ [](fetch_pc = "raised" => RaisedByBody)
    /\ [](fetch_pc = "blocked" => Len(requests) = Len(responses) + 1)
    /\ [](max_pages = NoneInt /\ Stopped =>
            stop_reason \in {"EmptyPage", "TransportError"})
    /\ [][UnsetGoesOn]_vars

\* C10 witness: max_pages = 2, page 1 held records, the body of page 2 is
\* the number 5, and TypeError has left the call.
C10_Witness ==
    /\ max_pages = 2
    /\ Len(responses) = 2
    /\ IsOkData(responses[1])
    /\ responses[2].body = JNumber(5)
    /\ fetch_pc = "raised"
    /\ stop_reason = "TypeError"

----------------------------------------------------------------------------
(* Properties of extract_text_fields *)

ContainsTag(s) == Contains(s, POpen) \/ Contains(s, PClose)

\* every "<" of s begins a "<p>" or a "</p>"
WellTagged(s) ==
    \A i \in 1 .. Len(s) :
        s[i] = "<" => (MatchesAt(s, i, POpen) \/ MatchesAt(s, i, PClose))

\* C7 as stated: for a field whose value is a dict, the extracted value is
\* the 'rendered' string ('' when absent) without any "<p>" or "</p>" left
\* in it, for every string.
C7_NoTagLeft ==
    flat_pc = "extracted" =>
        \A k \in DOMAIN item :
            (IsDict(item[k]) /\ k \in DOMAIN extracted.val)
            => ~ContainsTag(extracted.val[k])

\* C7 as amended: the occurrences of "<p>" and then of "</p>" are removed in
\* one pass each. A 'rendered' string in which every "<" begins a "<p>" or a
\* "</p>" is left without any "<p>" or "</p>"; "<p>Hello</p><p>World</p>"
\* becomes "HelloWorld"; a dict without 'rendered' gives ''.
C7_NoTagLeftWhenWellTagged ==
    flat_pc = "extracted" =>
        \A k \in DOMAIN item :
            (IsDict(item[k]) /\ k \in DOMAIN extracted.val)
            => /\ WellTagged(Rendered(item[k])) => ~ContainsTag(extracted.val[k])
               /\ Rendered(item[k]) = HelloWorldHtml => extracted.val[k] = HelloWorldText
               /\ ~item[k].has => extracted.val[k] = <<>>

\* C7 witness: the title {'rendered': '<p>Hello</p><p>World</p>'} has been
\* extracted as 'HelloWorld'.
C7_Witness ==
    /\ flat_pc = "extracted"
    /\ "title" \in DOMAIN item
    /\ item["title"] = DictV(HelloWorldHtml)
    /\ extracted.val["title"] = HelloWorldText

\* C8: flattening is idempotent: flattening the flattened record again, with
\* the same fields, returns the same keys with the same values, which are
\* the keys and values of the all-string record it was given.
C8_Idempotent ==
    flat_pc = "reextracted" =>
        /\ extracted = first_extracted
        /\ DOMAIN extracted.val = DOMAIN item
        /\ \A k \in DOMAIN item : extracted.val[k] = item[k].s

\* C8 witness: a record has been flattened twice and its title, a string
\* that holds "<p>", came back unchanged.
C8_Witness ==
    /\ flat_pc = "reextracted"
    /\ "title" \in DOMAIN extracted.val
    /\ Contains(extracted.val["title"], POpen)
    /\ item["title"].kind = "str"

----------------------------------------------------------------------------
(* Properties of save_to_csv *)

\* the cells of record i under the header of the first record: a value for a
\* key the record holds, '' for one it does not
ExpectedRow(header, rowdict) ==
    [c \in 1 .. Len(header) |->
        IF header[c] \in DOMAIN rowdict.val THEN rowdict.val[header[c]] ELSE <<>>]

\* C5: the header is the keys of the first flattened record; a later record's
\* keys outside the header are dropped and its missing keys are empty cells,
\* so the export returns, without raising, a file of the header and one row
\* per record.
C5_ExtraKeysDropped ==
    (csv_pc # "start" /\ data # <<>>) =>
        LET ed     == ExtractedData(data, text_fields)
            header == ed[1].keys
        IN  /\ csv_pc = "returned"
            /\ filename \in DOMAIN fs.files
            /\ fs.files[filename] =
                   <<header>> \o [i \in 1 .. Len(data) |-> ExpectedRow(header, ed[i])]

\* C9: save_to_csv of an empty sequence changes nothing in the file system
\* (no directory made, no file made or rewritten) and returns.
C9_EmptyIsNoOp ==
    [][ (csv_pc = "start" /\ data = <<>>) => (fs' = fs /\ csv_pc' = "returned") ]_vars

\* C9 witness: the call with no records has returned, the export directory
\* has not been made, and only the message was printed.
C9_Witness ==
    /\ csv_pc = "returned"
    /\ data = <<>>
    /\ filename.dir # <<>>
    /\ filename.dir \notin fs.dirs
    /\ fs.files = NoFiles
    /\ csv_out = <<"No data to save.">>

====
